---- MODULE Spec2Model ----
(***************************************************************************)
(* Model of markdown2html.py: the line scanner of main() with its block    *)
(* accumulator, the four block renderers and the inline rewriter.          *)
(*                                                                         *)
(* A text is a sequence of one-character strings.  The literal pieces the  *)
(* program inserts ("<b>", "</li>", "<br/>", the newline "\n" of a join,   *)
(* ...) are kept as single elements: no input character of the model is    *)
(* "<", ">" or "/", so no pass can match inside them.                      *)
(***************************************************************************)
EXTENDS Integers, Sequences, FiniteSets, TLC

VARIABLES
    lines,          \* main: the list returned by f.readlines() (newline dropped)
    idx,            \* main: number of lines the for loop has consumed
    html_lines,     \* main: list of rendered fragments
    current_block,  \* main: accumulator of the open block (rstripped lines)
    current_type,   \* main: "None", "ul", "ol" or "p"
    pc,             \* main: "scan", "last", "write", "done"; "inline" in SpecInline
    output,         \* main: the text written to the output file
    src,            \* history: for each fragment, the input indices it renders
    block_src,      \* history: the input indices of the lines in current_block
    text,           \* process_inline_markup: the local variable text
    hist,           \* history: the values text had before each pass
    inl_pc          \* process_inline_markup: next pass, "bold","em","md5","c","ret"

vars == <<lines, idx, html_lines, current_block, current_type, pc, output,
          src, block_src, text, hist, inl_pc>>

scanVars == <<lines, idx, html_lines, current_block, current_type, output,
              src, block_src>>
inlVars == <<text, hist, inl_pc>>

----------------------------------------------------------------------------
(* Bounds *)

MaxLines == 3      \* lines in an input document
MaxTokens == 6     \* tokens in an inline text of the strip family (one less for the others)
MaxMixed == 3      \* tokens in an inline text of the mixed and the run families

----------------------------------------------------------------------------
(* Sequence helpers *)

RECURSIVE Flatten(_)
Flatten(ss) == IF ss = <<>> THEN <<>> ELSE Head(ss) \o Flatten(Tail(ss))

SeqsUpTo(S, n) == UNION {[1..k -> S] : k \in 0..n}

Range(s) == {s[i] : i \in 1..Len(s)}

\* s has the element sequence p at position i
HasAt(s, p, i) ==
    /\ i >= 1
    /\ i + Len(p) - 1 <= Len(s)
    /\ \A k \in 1..Len(p) : s[i + k - 1] = p[k]

StartsWith(s, p) == HasAt(s, p, 1)

Min(S) == CHOOSE x \in S : \A y \in S : x <= y

----------------------------------------------------------------------------
(* Python string methods *)

Whitespace == {" "}

\* str.lstrip(chars): drop the longest prefix made of characters of chars
RECURSIVE LStrip(_, _)
LStrip(s, chars) ==
    IF s # <<>> /\ Head(s) \in chars THEN LStrip(Tail(s), chars) ELSE s

\* str.rstrip(chars)
RECURSIVE RStrip(_, _)
RStrip(s, chars) ==
    IF s # <<>> /\ s[Len(s)] \in chars
    THEN RStrip(SubSeq(s, 1, Len(s) - 1), chars)
    ELSE s

\* str.strip()
Strip(s) == RStrip(LStrip(s, Whitespace), Whitespace)

\* str.split()[0]: the first whitespace-delimited word
RECURSIVE TakeWord(_)
TakeWord(s) ==
    IF s = <<>> \/ Head(s) \in Whitespace THEN <<>>
    ELSE <<Head(s)>> \o TakeWord(Tail(s))

FirstWord(s) == TakeWord(LStrip(s, Whitespace))

\* str.replace(old, new): every non-overlapping occurrence, left to right
RECURSIVE ReplaceFrom(_, _, _, _)
ReplaceFrom(s, old, new, i) ==
    IF i > Len(s) THEN <<>>
    ELSE IF HasAt(s, old, i) THEN new \o ReplaceFrom(s, old, new, i + Len(old))
    ELSE <<s[i]>> \o ReplaceFrom(s, old, new, i + 1)

Replace(s, old, new) == ReplaceFrom(s, old, new, 1)

\* variant: every part is terminated by a newline
RECURSIVE Join_Trailing(_)
Join_Trailing(parts) ==
    IF parts = <<>> THEN <<>>
    ELSE parts[1] \o <<"\n">> \o Join_Trailing(Tail(parts))

\* "\n".join(parts)
RECURSIVE Join(_)
Join(parts) ==
    IF parts = <<>> THEN <<>>
    ELSE IF Len(parts) = 1 THEN parts[1]
    ELSE parts[1] \o <<"\n">> \o Join(Tail(parts))

\* str(n) for a natural number
DigitChar(d) == <<"0", "1", "2", "3", "4", "5", "6", "7", "8", "9">>[d + 1]

RECURSIVE Str(_)
Str(n) == IF n < 10 THEN <<DigitChar(n)>> ELSE Str(n \div 10) \o <<DigitChar(n % 10)>>

----------------------------------------------------------------------------
(* Inline rewriter: process_inline_markup *)

\* variant: the content may be empty, as with ([^*]*)
RunClose_Empty(s, d, i) ==
    IF ~HasAt(s, <<d, d>>, i) THEN 0
    ELSE LET stops == {k \in (i + 2)..Len(s) : s[k] = d}
         IN IF stops = {} THEN 0
            ELSE LET k == Min(stops)
                 IN IF HasAt(s, <<d, d>>, k) THEN k ELSE 0

\* re.sub(r'\*\*([^*]+)\*\*', ...) and re.sub(r'__([^_]+)__', ...) at one
\* position: the index of the closing delimiter of a match that starts at i,
\* or 0 when the pattern does not match at i.  The content is the run of
\* characters other than d that starts at i + 2; it must be non-empty and
\* be followed by d d.
RunClose(s, d, i) ==
    IF ~HasAt(s, <<d, d>>, i) THEN 0
    ELSE LET stops == {k \in (i + 2)..Len(s) : s[k] = d}
         IN IF stops = {} THEN 0
            ELSE LET k == Min(stops)
                 IN IF k > i + 2 /\ HasAt(s, <<d, d>>, k) THEN k ELSE 0

\* re.sub over the whole text: leftmost matches, non-overlapping
RECURSIVE RunSub(_, _, _, _, _)
RunSub(s, d, open, close, i) ==
    IF i > Len(s) THEN <<>>
    ELSE LET k == RunClose(s, d, i)
         IN IF k > 0
            THEN <<open>> \o SubSeq(s, i + 2, k - 1) \o <<close>>
                     \o RunSub(s, d, open, close, k + 2)
            ELSE <<s[i]>> \o RunSub(s, d, open, close, i + 1)

\* variant: bold runs get the emphasis tags
ConvertBold_Em(s) == RunSub(s, "*", "<em>", "</em>", 1)

ConvertBold(s) == RunSub(s, "*", "<b>", "</b>", 1)

ConvertEmphasis(s) == RunSub(s, "_", "<em>", "</em>", 1)

\* r'\[\[(.*?)\]\]' and r'\(\((.*?)\)\)' at one position: the index of the
\* closing delimiter of the lazy match that starts at i, or 0
LazyClose(s, o, c, i) ==
    IF ~HasAt(s, <<o, o>>, i) THEN 0
    ELSE LET ends == {k \in (i + 2)..Len(s) : HasAt(s, <<c, c>>, k)}
         IN IF ends = {} THEN 0 ELSE Min(ends)

\* re.findall: the captured contents, leftmost matches, non-overlapping
RECURSIVE FindAll(_, _, _, _)
FindAll(s, o, c, i) ==
    IF i > Len(s) THEN <<>>
    ELSE LET k == LazyClose(s, o, c, i)
         IN IF k > 0
            THEN <<SubSeq(s, i + 2, k - 1)>> \o FindAll(s, o, c, k + 2)
            ELSE FindAll(s, o, c, i + 1)

\* hashlib.md5(match.encode()).hexdigest(), abstracted: a non-empty text of
\* lowercase hexadecimal digits that is a function of the content alone
\* (two digits per character after a fixed prefix; hexadecimal digests do
\* contain the letter c).
HexOf(ch) ==
    CASE ch = "[" -> <<"5", "b">>
      [] ch = "]" -> <<"5", "d">>
      [] ch = "(" -> <<"2", "8">>
      [] ch = ")" -> <<"2", "9">>
      [] ch = "*" -> <<"2", "a">>
      [] ch = "_" -> <<"5", "f">>
      [] ch = "c" -> <<"6", "3">>
      [] ch = "C" -> <<"4", "3">>
      [] ch = "x" -> <<"7", "8">>
      [] ch = "a" -> <<"6", "1">>
      [] ch = "b" -> <<"6", "2">>
      [] ch = " " -> <<"2", "0">>
      [] ch = "-" -> <<"2", "d">>
      [] ch = "#" -> <<"2", "3">>
      [] OTHER -> <<"3", "c">>

RECURSIVE HexAll(_)
HexAll(s) == IF s = <<>> THEN <<>> ELSE HexOf(Head(s)) \o HexAll(Tail(s))

md5_hash(match) == <<"d", "c">> \o HexAll(match)

\* re.sub(r'[cC]', '', match)
RECURSIVE no_c(_)
no_c(match) ==
    IF match = <<>> THEN <<>>
    ELSE IF Head(match) \in {"c", "C"} THEN no_c(Tail(match))
    ELSE <<Head(match)>> \o no_c(Tail(match))

\* for match in md5_matches: text = text.replace(f"[[{match}]]", md5_hash)
RECURSIVE MD5Loop(_, _)
MD5Loop(s, matches) ==
    IF matches = <<>> THEN s
    ELSE MD5Loop(Replace(s, <<"[", "[">> \o Head(matches) \o <<"]", "]">>,
                         md5_hash(Head(matches))),
                 Tail(matches))

ConvertMD5(s) == MD5Loop(s, FindAll(s, "[", "]", 1))

\* for match in c_matches: text = text.replace(f"(({match}))", no_c)
RECURSIVE CLoop(_, _)
CLoop(s, matches) ==
    IF matches = <<>> THEN s
    ELSE CLoop(Replace(s, <<"(", "(">> \o Head(matches) \o <<")", ")">>,
                       no_c(Head(matches))),
               Tail(matches))

RemoveC(s) == CLoop(s, FindAll(s, "(", ")", 1))

process_inline_markup(s) == RemoveC(ConvertMD5(ConvertEmphasis(ConvertBold(s))))

----------------------------------------------------------------------------
(* The inline rewriter as a process: one action per pass *)

\* Input texts: sequences of tokens of one family (the characters one pass
\* looks at), short sequences over the delimiters of all four passes, and
\* short sequences of whole bold and emphasis runs, and a strip span around
\* short sequences of whole bold, emphasis and hash spans
BoldTokens == {<<"*", "*">>, <<"_", "_">>, <<"*">>, <<"x">>}
HashTokens == {<<"[", "[">>, <<"]", "]">>, <<"[">>, <<"x">>}
StripTokens == {<<"(", "(">>, <<")", ")">>, <<"c", "x", "C">>}
MixedTokens ==
    {<<"*", "*">>, <<"_", "_">>, <<"[", "[">>, <<"]", "]">>,
     <<"(", "(">>, <<")", ")">>, <<"c">>, <<"x">>}
RunTokens ==
    {<<"*", "*", "x", "*", "*">>, <<"_", "_", "x", "_", "_">>, <<"*", "*">>, <<"_">>, <<"x">>}
NestTokens ==
    {<<"[", "[", "c", "]", "]">>, <<"*", "*", "c", "*", "*">>,
     <<"_", "_", "C", "_", "_">>, <<"x">>}

Nest(ts) == <<"(", "(">> \o Flatten(ts) \o <<")", ")">>

InlineTexts ==
    {Flatten(ts) : ts \in SeqsUpTo(BoldTokens, MaxTokens - 1)}
        \cup {Flatten(ts) : ts \in SeqsUpTo(HashTokens, MaxTokens - 1)}
        \cup {Flatten(ts) : ts \in SeqsUpTo(StripTokens, MaxTokens)}
        \cup {Flatten(ts) : ts \in SeqsUpTo(MixedTokens, MaxMixed)}
        \cup {Flatten(ts) : ts \in SeqsUpTo(RunTokens, MaxMixed)}
        \cup {Nest(ts) : ts \in SeqsUpTo(NestTokens, MaxMixed - 1)}

ScanIdle ==
    /\ lines = <<>>
    /\ idx = 0
    /\ html_lines = <<>>
    /\ current_block = <<>>
    /\ current_type = "None"
    /\ output = <<>>
    /\ src = <<>>
    /\ block_src = <<>>

InitInline ==
    /\ ScanIdle
    /\ pc = "inline"
    /\ text \in InlineTexts
    /\ hist = <<>>
    /\ inl_pc = "bold"

\* one pass: text = <the pass applied to text>
Pass(result, next) ==
    /\ pc = "inline"
    /\ text' = result
    /\ hist' = Append(hist, text)
    /\ inl_pc' = next
    /\ UNCHANGED <<scanVars, pc>>

BoldPass ==
    /\ inl_pc = "bold"
    /\ Pass(ConvertBold(text), "em")
EmphasisPass ==
    /\ inl_pc = "em"
    /\ Pass(ConvertEmphasis(text), "md5")
MD5Pass ==
    /\ inl_pc = "md5"
    /\ Pass(ConvertMD5(text), "c")
\* variant: the strip pass reads the text given to the rewriter
CPass_OnInput ==
    /\ inl_pc = "c"
    /\ Pass(RemoveC(hist[1]), "ret")

CPass ==
    /\ inl_pc = "c"
    /\ Pass(RemoveC(text), "ret")

NextInline == BoldPass \/ EmphasisPass \/ MD5Pass \/ CPass

SpecInline == InitInline /\ [][NextInline]_vars

----------------------------------------------------------------------------
(* Block renderers *)

\* variant: the heading text is passed through the inline rewriter
convert_heading_Inline(line) ==
    LET level == Len(FirstWord(line))
        txt == process_inline_markup(Strip(LStrip(line, {"#"})))
    IN <<"<h">> \o Str(level) \o <<">">> \o txt \o <<"</h">> \o Str(level) \o <<">">>

convert_heading(line) ==
    LET level == Len(FirstWord(line))
        txt == Strip(LStrip(line, {"#"}))
    IN <<"<h">> \o Str(level) \o <<">">> \o txt \o <<"</h">> \o Str(level) \o <<">">>

\* the <li> elements of a list: marker characters stripped with
\* str.lstrip(marker), then str.strip(), then the inline rewriter
ListItems(block, marker) ==
    [i \in 1..Len(block) |->
        <<"<li>">> \o process_inline_markup(Strip(LStrip(block[i], marker)))
                   \o <<"</li>">>]

convert_unordered_list(block) ==
    <<"<ul>", "\n">> \o Join(ListItems(block, {"-", " "})) \o <<"\n", "</ul>">>

convert_ordered_list(block) ==
    <<"<ol>", "\n">> \o Join(ListItems(block, {"*", " "})) \o <<"\n", "</ol>">>

processed_lines(block) ==
    [i \in 1..Len(block) |->
        process_inline_markup(block[i])
            \o (IF i < Len(block) /\ block[i + 1] # <<>> THEN <<"<br/>">> ELSE <<>>)]

convert_paragraph(block) ==
    <<"<p>", "\n">> \o Join(processed_lines(block)) \o <<"\n", "</p>">>

----------------------------------------------------------------------------
(* The scan loop of main() *)

\* A scan state: the loop's three variables and the two history sequences
ScanState ==
    [html_lines |-> html_lines, current_block |-> current_block,
     current_type |-> current_type, src |-> src, block_src |-> block_src]

ScanInit ==
    [html_lines |-> <<>>, current_block |-> <<>>, current_type |-> "None",
     src |-> <<>>, block_src |-> <<>>]

\* One if/elif chain of renderer calls: st.html_lines.append(convert_X(...))
\* for the types the chain names, nothing for any other type
Emit(st, handled) ==
    IF st.current_type \notin handled THEN st
    ELSE [st EXCEPT
            !.html_lines = Append(@,
                CASE st.current_type = "ul" -> convert_unordered_list(st.current_block)
                  [] st.current_type = "ol" -> convert_ordered_list(st.current_block)
                  [] st.current_type = "p" -> convert_paragraph(st.current_block)),
            !.src = Append(@, st.block_src)]

Clear(st) == [st EXCEPT !.current_block = <<>>, !.block_src = <<>>]

\* variant: the heading branch renders the open block but keeps it open
HeadingStep_NoClear(st, line, n) ==
    LET flushed == IF st.current_block # <<>>
                   THEN Emit(st, {"ul", "ol", "p"})
                   ELSE st
    IN [flushed EXCEPT !.html_lines = Append(@, convert_heading(line)),
                       !.src = Append(@, <<n>>)]

\* if line.startswith('#'):
HeadingStep(st, line, n) ==
    LET flushed == IF st.current_block # <<>>
                   THEN Clear(Emit(st, {"ul", "ol", "p"}))
                   ELSE st
    IN [flushed EXCEPT !.html_lines = Append(@, convert_heading(line)),
                       !.src = Append(@, <<n>>)]

\* variant: a branch flushes on a change of type even when no block is open
OpenStep_Stale(st, line, n, type, others) ==
    LET flushed == IF st.current_type # type
                   THEN Clear(Emit(st, others))
                   ELSE st
    IN [flushed EXCEPT !.current_type = type,
                       !.current_block = Append(@, line),
                       !.block_src = Append(@, n)]

\* elif line.startswith('- '), elif line.startswith('* '), elif line:
\* the three branches differ in the type they open and the types they flush
OpenStep(st, line, n, type, others) ==
    LET flushed == IF st.current_type # type /\ st.current_block # <<>>
                   THEN Clear(Emit(st, others))
                   ELSE st
    IN [flushed EXCEPT !.current_type = type,
                       !.current_block = Append(@, line),
                       !.block_src = Append(@, n)]

\* variant: the "- " branch has no renderer for an open ordered list
UlStep_NoOl(st, line, n) == OpenStep(st, line, n, "ul", {"p"})

UlStep(st, line, n) == OpenStep(st, line, n, "ul", {"p", "ol"})

OlStep(st, line, n) == OpenStep(st, line, n, "ol", {"p", "ul"})

ParagraphStep(st, line, n) == OpenStep(st, line, n, "p", {"ul", "ol"})

\* variant: a blank line leaves the open block open
BlankStep_Keep(st) == st

\* variant: a blank line closes the open block but keeps its type
BlankStep_NoReset(st) == Clear(Emit(st, {"ul", "ol", "p"}))

\* elif current_block:
BlankStep(st) ==
    [Clear(Emit(st, {"ul", "ol", "p"})) EXCEPT !.current_type = "None"]

\* the branch the if/elif chain of the loop body takes for a stripped line
Branch(line) ==
    IF StartsWith(line, <<"#">>) THEN "heading"
    ELSE IF StartsWith(line, <<"-", " ">>) THEN "ul"
    ELSE IF StartsWith(line, <<"*", " ">>) THEN "ol"
    ELSE IF line # <<>> THEN "p"
    ELSE "blank"

\* line = line.rstrip()
Stripped(raw) == RStrip(raw, Whitespace)

\* the loop body for the n-th input line
LineStep(st, raw, n) ==
    LET line == Stripped(raw)
        b == Branch(line)
    IN CASE b = "heading" -> HeadingStep(st, line, n)
         [] b = "ul" -> UlStep(st, line, n)
         [] b = "ol" -> OlStep(st, line, n)
         [] b = "p" -> ParagraphStep(st, line, n)
         [] b = "blank" -> IF st.current_block # <<>> THEN BlankStep(st) ELSE st

\* variant: the block open at the end of the input is not rendered
LastStep_Skip(st) == st

\* Handle last block if exists
LastStep(st) ==
    IF st.current_block # <<>> THEN Emit(st, {"ul", "ol", "p"}) ELSE st

\* the loop over the first n lines of ls, from the initial state
RECURSIVE ScanFold(_, _)
ScanFold(ls, n) ==
    IF n = 0 THEN ScanInit ELSE LineStep(ScanFold(ls, n - 1), ls[n], n)

\* the fragments emitted for the document ls
Render(ls) == LastStep(ScanFold(ls, Len(ls))).html_lines

----------------------------------------------------------------------------
(* Input documents *)

LineSet ==
    { <<>>,
      <<" ">>,
      <<"#", " ", "a">>,
      <<"#", "#", " ", "*", "*", "a", "*", "*", " ">>,
      <<"#", "a">>,
      <<"-", " ", "a">>,
      <<"-", " ">>,
      <<"-", " ", "-", " ", "b">>,
      <<"*", " ", "a">>,
      <<"*", " ", "*", "*", "b", "*", "*">>,
      <<"a">>,
      <<"_", "_", "b", "_", "_", " ">> }

Documents == SeqsUpTo(LineSet, MaxLines)

InlineIdle ==
    /\ text = <<>>
    /\ hist = <<>>
    /\ inl_pc = "ret"

Init ==
    /\ lines \in Documents
    /\ idx = 0
    /\ html_lines = <<>>
    /\ current_block = <<>>
    /\ current_type = "None"
    /\ pc = "scan"
    /\ output = <<>>
    /\ src = <<>>
    /\ block_src = <<>>
    /\ InlineIdle

\* for line in lines: line = line.rstrip()
NextLine == Stripped(lines[idx + 1])

\* the loop body, taken when the next line selects branch b, leading to st
Take(b, st) ==
    /\ idx < Len(lines)
    /\ Branch(NextLine) = b
    /\ html_lines' = st.html_lines
    /\ current_block' = st.current_block
    /\ current_type' = st.current_type
    /\ src' = st.src
    /\ block_src' = st.block_src
    /\ idx' = idx + 1
    /\ UNCHANGED <<lines, pc, output, inlVars>>

HeadingLine ==
    /\ pc = "scan"
    /\ Take("heading", HeadingStep(ScanState, NextLine, idx + 1))

UlLine ==
    /\ pc = "scan"
    /\ Take("ul", UlStep(ScanState, NextLine, idx + 1))

OlLine ==
    /\ pc = "scan"
    /\ Take("ol", OlStep(ScanState, NextLine, idx + 1))

ParagraphLine ==
    /\ pc = "scan"
    /\ Take("p", ParagraphStep(ScanState, NextLine, idx + 1))

BlankLine ==
    /\ pc = "scan"
    /\ current_block # <<>>
    /\ Take("blank", BlankStep(ScanState))

BlankNoBlock ==
    /\ pc = "scan"
    /\ current_block = <<>>
    /\ Take("blank", ScanState)

LastBlock ==
    /\ pc = "scan"
    /\ idx = Len(lines)
    /\ LET st == LastStep(ScanState)
       IN /\ html_lines' = st.html_lines
          /\ src' = st.src
    /\ pc' = "write"
    /\ UNCHANGED <<lines, idx, current_block, current_type, block_src, output, inlVars>>

\* f.write('\n'.join(html_lines)); sys.exit(0)
WriteOutput ==
    /\ pc = "write"
    /\ output' = Join(html_lines)
    /\ pc' = "done"
    /\ UNCHANGED <<lines, idx, html_lines, current_block, current_type, src,
                   block_src, inlVars>>

Next ==
    \/ HeadingLine
    \/ UlLine
    \/ OlLine
    \/ ParagraphLine
    \/ BlankLine
    \/ BlankNoBlock
    \/ LastBlock
    \/ WriteOutput

Spec == Init /\ [][Next]_vars

----------------------------------------------------------------------------
(* Vocabulary of the properties *)

ScanDone == pc \in {"write", "done"}

Count(s, tok) == Cardinality({i \in 1..Len(s) : s[i] = tok})

Interval(a, b) == [i \in 1..(b - a + 1) |-> a + i - 1]

Max(S) == CHOOSE x \in S : \A y \in S : x >= y

\* s without its leading and trailing spaces
Trimmed(s) ==
    LET solid == {i \in 1..Len(s) : s[i] # " "}
    IN IF solid = {} THEN <<>> ELSE SubSeq(s, Min(solid), Max(solid))

\* the number of leading ch characters of s
Leading(s, ch) == Cardinality({i \in 1..Len(s) : \A k \in 1..i : s[k] = ch})

IsBlankLine(raw) == \A i \in 1..Len(raw) : raw[i] = " "

IsHeadingLine(raw) == StartsWith(raw, <<"#">>)

UlMarker == <<"-", " ">>
OlMarker == <<"*", " ">>

\* input line i carries the list marker
Carries(i, marker) == StartsWith(lines[i], marker)

\* input line i is a paragraph line: not blank, no heading, no list marker
IsParaLine(i) ==
    /\ ~IsBlankLine(lines[i])
    /\ ~IsHeadingLine(lines[i])
    /\ ~Carries(i, UlMarker)
    /\ ~Carries(i, OlMarker)

\* a..b is a maximal run of input lines carrying the marker
IsListRun(a, b, marker) ==
    /\ a <= b
    /\ \A i \in a..b : Carries(i, marker)
    /\ a = 1 \/ ~Carries(a - 1, marker)
    /\ b = Len(lines) \/ ~Carries(b + 1, marker)

\* a..b is a maximal run of paragraph lines
IsParaRun(a, b) ==
    /\ a <= b
    /\ \A i \in a..b : IsParaLine(i)
    /\ a = 1 \/ ~IsParaLine(a - 1)
    /\ b = Len(lines) \/ ~IsParaLine(b + 1)

Positions == 1..Len(lines)
Fragments == 1..Len(html_lines)

\* the pieces of a fragment between its newlines
RECURSIVE SplitAt(_, _)
SplitAt(s, acc) ==
    IF s = <<>> THEN <<acc>>
    ELSE IF Head(s) = "\n" THEN <<acc>> \o SplitAt(Tail(s), <<>>)
    ELSE SplitAt(Tail(s), Append(acc, Head(s)))

Pieces(frag) == SplitAt(frag, <<>>)

EndsWith(s, tok) == s # <<>> /\ s[Len(s)] = tok

----------------------------------------------------------------------------
(* C1: when the scan has finished, for each list kind every maximal run of  *)
(* consecutive input lines carrying the marker ("- " for <ul>, "* " for     *)
(* <ol>) is rendered as exactly one list fragment of that kind with one     *)
(* <li> per line of the run in order, and every list fragment of that kind  *)
(* renders exactly one such run (two runs are never merged).                *)
ListRunsOf(marker, tag) ==
    /\ \A a, b \in Positions :
          IsListRun(a, b, marker) =>
              /\ Cardinality({k \in Fragments : src[k] = Interval(a, b)}) = 1
              /\ \A k \in Fragments :
                    src[k] = Interval(a, b) =>
                        /\ html_lines[k][1] = tag
                        /\ Count(html_lines[k], "<li>") = b - a + 1
    /\ \A k \in Fragments :
          html_lines[k][1] = tag =>
              \E a, b \in Positions : IsListRun(a, b, marker) /\ src[k] = Interval(a, b)

C1_ListRuns ==
    ScanDone => ListRunsOf(UlMarker, "<ul>") /\ ListRunsOf(OlMarker, "<ol>")

(* C2: when the scan has finished, every maximal run of consecutive         *)
(* paragraph lines (not blank, no heading, no list marker) is rendered as   *)
(* exactly one <p> fragment holding the lines of the run in order, and      *)
(* rendered line i of it ends with <br/> exactly when i is not its last     *)
(* line and the next raw line is not empty.                                 *)
C2_ParagraphRuns ==
    ScanDone =>
        \A a, b \in Positions :
            IsParaRun(a, b) =>
                /\ Cardinality({k \in Fragments : src[k] = Interval(a, b)}) = 1
                /\ \A k \in Fragments :
                      src[k] = Interval(a, b) =>
                          LET ps == Pieces(html_lines[k])
                          IN /\ Len(ps) = (b - a + 1) + 2
                             /\ ps[1] = <<"<p>">>
                             /\ ps[Len(ps)] = <<"</p>">>
                             /\ \A i \in 1..(b - a + 1) :
                                   EndsWith(ps[i + 1], "<br/>")
                                       <=> (i < b - a + 1 /\ ~IsBlankLine(lines[a + i]))

(* C3: two paragraph lines separated by one blank (empty or whitespace-only) *)
(* line end up in two separate <p> fragments, the first ending with the     *)
(* line before the blank line and the second starting with the line after   *)
(* it; no fragment and no open block ever holds lines from both sides of a  *)
(* blank line.                                                              *)
Straddles(ixs, j) == \E a, b \in Range(ixs) : a < j /\ j < b

C3_BlankSeparates ==
    /\ \A j \in Positions :
          IsBlankLine(lines[j]) =>
              /\ ~Straddles(block_src, j)
              /\ \A k \in Fragments : ~Straddles(src[k], j)
    /\ ScanDone =>
          \A i \in Positions :
              (/\ i + 2 <= Len(lines)
               /\ IsParaLine(i)
               /\ IsBlankLine(lines[i + 1])
               /\ IsParaLine(i + 2))
                  => \E k1, k2 \in Fragments :
                        /\ k1 < k2
                        /\ html_lines[k1][1] = "<p>"
                        /\ html_lines[k2][1] = "<p>"
                        /\ src[k1][Len(src[k1])] = i
                        /\ src[k2][1] = i + 2

C3_Witness ==
    /\ pc = "done"
    /\ Len(lines) = 3
    /\ IsParaLine(1)
    /\ lines[2] = <<" ">>
    /\ IsParaLine(3)
    /\ Len(html_lines) = 2
    /\ src = <<<<1>>, <<3>>>>

(* C4: for every line made of N >= 1 "#" characters, a space and text, the  *)
(* fragment emitted for the line is exactly <hN>, the line without its      *)
(* leading "#" run and surrounding whitespace, </hN>; the text is emitted   *)
(* verbatim, with no inline rewriting.                                      *)
HeadingForm(raw) ==
    LET n == Leading(raw, "#")
    IN /\ n >= 1
       /\ Len(raw) > n
       /\ raw[n + 1] = " "
       /\ ~IsBlankLine(SubSeq(raw, n + 1, Len(raw)))

ExpectedHeading(raw) ==
    LET n == Leading(raw, "#")
    IN <<"<h">> \o Str(n) \o <<">">> \o Trimmed(SubSeq(raw, n + 1, Len(raw)))
                \o <<"</h">> \o Str(n) \o <<">">>

C4_Heading ==
    \A i \in 1..idx :
        HeadingForm(lines[i]) =>
            \E k \in Fragments :
                src[k] = <<i>> /\ html_lines[k] = ExpectedHeading(lines[i])

C4_Witness ==
    \E i \in 1..idx :
        /\ HeadingForm(lines[i])
        /\ Leading(lines[i], "#") = 2
        /\ \E k \in Fragments :
              /\ src[k] = <<i>>
              /\ html_lines[k] = <<"<h", "2", ">", "*", "*", "a", "*", "*", "</h", "2", ">">>

(* C5: when the scan has finished every non-blank input line has been       *)
(* rendered into exactly one fragment (as one heading, one <li> or one      *)
(* paragraph line), none dropped and none rendered twice, in input order;   *)
(* a block still open at the end of the input is flushed.                   *)
NonBlank == SelectSeq(Interval(1, Len(lines)), LAMBDA i : ~IsBlankLine(lines[i]))

Units(frag) ==
    IF frag[1] \in {"<ul>", "<ol>"} THEN Count(frag, "<li>")
    ELSE IF frag[1] = "<p>" THEN Len(Pieces(frag)) - 2
    ELSE 1

C5_EveryLineOnce ==
    ScanDone =>
        /\ Len(src) = Len(html_lines)
        /\ Flatten(src) = NonBlank
        /\ \A k \in Fragments : Units(html_lines[k]) = Len(src[k])

C5_Witness ==
    /\ pc = "done"
    /\ Len(lines) = 3
    /\ current_block # <<>>
    /\ Flatten(src) = <<1, 3>>
    /\ Len(html_lines) = 2
    /\ src[Len(src)] = block_src

(* C6: the item text inside <li>...</li> is the inline rewriter applied to  *)
(* the list line with exactly its first two characters (the marker) removed *)
(* and surrounding whitespace trimmed; no character after the marker is     *)
(* removed by the marker stripping.                                         *)
C6_MarkerOnly ==
    \A k \in Fragments :
        html_lines[k][1] \in {"<ul>", "<ol>"} =>
            LET ps == Pieces(html_lines[k])
            IN \A i \in 1..Len(src[k]) :
                  LET raw == lines[src[k][i]]
                  IN ps[i + 1] = <<"<li>">>
                        \o process_inline_markup(Trimmed(SubSeq(raw, 3, Len(raw))))
                        \o <<"</li>">>

----------------------------------------------------------------------------
(* Vocabulary of the inline properties *)

Returned == pc = "inline" /\ inl_pc = "ret"

WithoutC(s) == SelectSeq(s, LAMBDA ch : ch \notin {"c", "C"})

\* what a span of the given pass is replaced by
Substitute(pass, content) ==
    IF pass = "md5" THEN md5_hash(content) ELSE WithoutC(content)

\* one left-to-right scan of s: every span o o content c c found by the scan
\* is replaced by its substitute, every other character is kept
RECURSIVE OneScan(_, _, _, _, _)
OneScan(s, o, c, pass, i) ==
    IF i > Len(s) THEN <<>>
    ELSE LET k == LazyClose(s, o, c, i)
         IN IF k > 0
            THEN Substitute(pass, SubSeq(s, i + 2, k - 1)) \o OneScan(s, o, c, pass, k + 2)
            ELSE <<s[i]>> \o OneScan(s, o, c, pass, i + 1)

\* s holds an opening o o and, after it, a closing c c
HasSpan(s, o, c) ==
    \E i, j \in 1..Len(s) :
        HasAt(s, <<o, o>>, i) /\ HasAt(s, <<c, c>>, j) /\ j >= i + 2

HasHashOrStripSpan(s) == HasSpan(s, "[", "]") \/ HasSpan(s, "(", ")")

\* i..j+1 is a run d d content d d of s with a non-empty content free of d
IsRun(s, d, i, j) ==
    /\ HasAt(s, <<d, d>>, i)
    /\ HasAt(s, <<d, d>>, j)
    /\ j > i + 2
    /\ \A k \in (i + 2)..(j - 1) : s[k] # d

HasRun(s, d) == \E i, j \in 1..Len(s) : IsRun(s, d, i, j)

Runs(s) == {r \in {"*", "_"} \X (1..Len(s)) \X (1..Len(s)) : IsRun(s, r[1], r[2], r[3])}

RunsDisjoint(s) ==
    \A r1, r2 \in Runs(s) : r1 = r2 \/ r1[3] + 1 < r2[2] \/ r2[3] + 1 < r1[2]

OpenTag(d) == IF d = "*" THEN "<b>" ELSE "<em>"
CloseTag(d) == IF d = "*" THEN "</b>" ELSE "</em>"

\* s with every run replaced by its tagged content, the rest unchanged
RECURSIVE Rewritten(_, _)
Rewritten(s, p) ==
    IF p > Len(s) THEN <<>>
    ELSE IF \E r \in Runs(s) : r[2] = p
    THEN LET r == CHOOSE r \in Runs(s) : r[2] = p
         IN <<OpenTag(r[1])>> \o SubSeq(s, p + 2, r[3] - 1) \o <<CloseTag(r[1])>>
                \o Rewritten(s, r[3] + 2)
    ELSE <<s[p]>> \o Rewritten(s, p + 1)

\* the text is d d x d d as a whole
Delimited(s, d) == Len(s) >= 5 /\ IsRun(s, d, 1, Len(s) - 1)

Inner(s) == SubSeq(s, 3, Len(s) - 2)

Other(d) == IF d = "*" THEN "_" ELSE "*"

----------------------------------------------------------------------------
(* C7: the character-strip pass replaces exactly the ((content)) spans found *)
(* by one left-to-right scan of its input, each by its content without c    *)
(* and C; text outside the spans is unchanged and text produced by a        *)
(* replacement is never matched and replaced again.                         *)
C7_StripOneScan ==
    Returned => text = OneScan(hist[4], "(", ")", "c", 1)

(* C8, as stated: for every non-empty x without "*" (and without [[ or ((   *)
(* spans) process("**" x "**") is <b> x </b>, likewise for "_" and <em>; in *)
(* a longer line every delimited run is rewritten and the text between runs *)
(* is unchanged.                                                            *)
LongerLine ==
    (~HasHashOrStripSpan(hist[1]) /\ RunsDisjoint(hist[1]))
        => text = Rewritten(hist[1], 1)

NoCompletePair(s) ==
    /\ \A d \in {"*", "_"} :
          ~\E i, j \in 1..Len(s) :
              HasAt(s, <<d, d>>, i) /\ HasAt(s, <<d, d>>, j) /\ j > i + 2
    /\ ~HasHashOrStripSpan(s)

C10_Unbalanced ==
    (pc = "inline" /\ hist # <<>> /\ NoCompletePair(hist[1])) => text = hist[1]

C10_Witness ==
    /\ Returned
    /\ hist[1] = <<"*", "*", "[", "[", "(", "(">>
    /\ NoCompletePair(hist[1])
    /\ text = hist[1]

----------------------------------------------------------------------------
(* C11: the output text is the rendered fragments in emission order, joined *)
(* by single newlines, with no newline before the first or after the last   *)
(* fragment; a document without lines, or with blank lines only, gives the  *)
(* empty output.                                                            *)
RECURSIVE OffsetOf(_)
OffsetOf(k) == IF k = 1 THEN 0 ELSE OffsetOf(k - 1) + Len(html_lines[k - 1]) + 1

C11_OutputJoined ==
    pc = "done" =>
        /\ Len(output) = OffsetOf(Len(html_lines) + 1) - (IF html_lines = <<>> THEN 0 ELSE 1)
        /\ \A k \in Fragments :
              /\ HasAt(output, html_lines[k], OffsetOf(k) + 1)
              /\ k > 1 => output[OffsetOf(k)] = "\n"
        /\ output # <<>> => output[1] # "\n" /\ output[Len(output)] # "\n"
        /\ (\A i \in Positions : IsBlankLine(lines[i])) => output = <<>>

C11_Witness ==
    /\ pc = "done"
    /\ Len(html_lines) = 3
    /\ Count(output, "<p>") = 2
    /\ Count(output, "<h") = 1
    /\ output[Len(html_lines[1]) + 1] = "\n"

----------------------------------------------------------------------------
(* C12: when a heading line is processed while a block is open, the         *)
(* fragment of the open block is emitted first and the heading fragment     *)
(* right after it; the heading joins no block and leaves no block open, so  *)
(* a list or paragraph line that follows a heading starts a new block.      *)
TagOf(type) ==
    CASE type = "ul" -> "<ul>"
      [] type = "ol" -> "<ol>"
      [] type = "p" -> "<p>"
      [] OTHER -> "none"

\* the step consumes input line idx + 1
Consumes == pc = "scan" /\ idx < Len(lines) /\ idx' = idx + 1

HeadingFlush ==
    (Consumes /\ IsHeadingLine(lines[idx + 1])) =>
        LET n == Len(html_lines)
        IN /\ current_block' = <<>>
           /\ block_src' = <<>>
           /\ IF current_block # <<>>
              THEN /\ Len(html_lines') = n + 2
                   /\ SubSeq(html_lines', 1, n) = html_lines
                   /\ html_lines'[n + 1][1] = TagOf(current_type)
                   /\ src'[n + 1] = block_src
                   /\ html_lines'[n + 2][1] = "<h"
                   /\ src'[n + 2] = <<idx + 1>>
              ELSE /\ Len(html_lines') = n + 1
                   /\ SubSeq(html_lines', 1, n) = html_lines
                   /\ html_lines'[n + 1][1] = "<h"
                   /\ src'[n + 1] = <<idx + 1>>

NewBlockAfterHeading ==
    (/\ Consumes
     /\ idx >= 1
     /\ IsHeadingLine(lines[idx])
     /\ ~IsHeadingLine(lines[idx + 1])
     /\ ~IsBlankLine(lines[idx + 1]))
        => /\ block_src' = <<idx + 1>>
           /\ Len(current_block') = 1
           /\ html_lines' = html_lines

C12_HeadingFlush == [][HeadingFlush /\ NewBlockAfterHeading]_vars

C12_Witness ==
    /\ idx = 3
    /\ Carries(1, UlMarker)
    /\ IsHeadingLine(lines[2])
    /\ IsParaLine(3)
    /\ src = <<<<1>>, <<2>>>>
    /\ html_lines[1][1] = "<ul>"
    /\ html_lines[2][1] = "<h"
    /\ block_src = <<3>>

----------------------------------------------------------------------------
(* C13, as stated: after any blank line is processed the accumulator is     *)
(* empty and the recorded block type is none, also when the blank line      *)
(* follows a heading or another blank line.                                 *)
AfterBlank == idx >= 1 /\ IsBlankLine(lines[idx])

HeadingBefore(i) ==
    \E j \in 1..(i - 1) :
        /\ IsHeadingLine(lines[j])
        /\ \A k \in (j + 1)..i : IsBlankLine(lines[k])

----------------------------------------------------------------------------
(* C14: for every line that starts with "#", with or without a space after  *)
(* the "#" run, the fragment emitted for it is <hN>text</hN> where N is the *)
(* number of leading "#" characters of the line and text is the remainder   *)
(* with the leading "#" run and surrounding whitespace stripped.            *)
C14_LevelCountsHashes ==
    \A i \in 1..idx :
        IsHeadingLine(lines[i]) =>
            \E k \in Fragments :
                src[k] = <<i>> /\ html_lines[k] = ExpectedHeading(lines[i])

----------------------------------------------------------------------------
(* C15: the kind of a line is a function of its own text only, chosen by    *)
(* the first matching rule: starts with "#" - heading; starts with "- " -   *)
(* unordered list; starts with "* " - ordered list; any other non-empty     *)
(* line - paragraph; empty after trimming trailing whitespace - blank.      *)
(* Every processed line is treated as the kind its text gives it, in        *)
(* particular a marker followed only by whitespace is a list item.          *)
KindOfText(raw) ==
    IF StartsWith(raw, <<"#">>) THEN "heading"
    ELSE IF StartsWith(raw, UlMarker) THEN "ul"
    ELSE IF StartsWith(raw, OlMarker) THEN "ol"
    ELSE IF ~IsBlankLine(raw) THEN "p"
    ELSE "blank"

KindOfTag(tag) ==
    CASE tag = "<h" -> "heading"
      [] tag = "<ul>" -> "ul"
      [] tag = "<ol>" -> "ol"
      [] tag = "<p>" -> "p"
      [] OTHER -> "unknown"

\* the kind as which the scan has handled input line i
TreatedAs(i) ==
    IF \E k \in Fragments : i \in Range(src[k])
    THEN KindOfTag(html_lines[CHOOSE k \in Fragments : i \in Range(src[k])][1])
    ELSE IF i \in Range(block_src) THEN current_type
    ELSE "blank"

C15_KindOfTextOnly ==
    \A i \in 1..idx : TreatedAs(i) = KindOfText(lines[i])

----------------------------------------------------------------------------
(* C16: the inline rewriter is strip(hash(emphasis(bold(text)))): the four  *)
(* passes run in the order bold, emphasis, hash, strip, each on the whole   *)
(* output of the pass before it; so a hash span inside a strip span is      *)
(* hashed first and the digest then loses its c/C characters, and bold or   *)
(* emphasis markup inside a strip span is rewritten before the strip.       *)
bold(s) == ConvertBold(s)
emphasis(s) == ConvertEmphasis(s)
hash(s) == ConvertMD5(s)
strip(s) == RemoveC(s)

\* the text after the first k passes
AfterPasses(k, s) ==
    CASE k = 0 -> s
      [] k = 1 -> bold(s)
      [] k = 2 -> emphasis(bold(s))
      [] k = 3 -> hash(emphasis(bold(s)))
      [] k = 4 -> strip(hash(emphasis(bold(s))))

\* what a strip span around whole spans becomes when the spans are rewritten
\* first and the strip is applied to their results
RECURSIVE NestExpected(_)
NestExpected(ts) ==
    IF ts = <<>> THEN <<>>
    ELSE LET t == Head(ts)
         IN (CASE t[1] = "[" -> WithoutC(md5_hash(SubSeq(t, 3, Len(t) - 2)))
               [] t[1] = "*" -> <<"<b>">> \o WithoutC(SubSeq(t, 3, Len(t) - 2)) \o <<"</b>">>
               [] t[1] = "_" -> <<"<em>">> \o WithoutC(SubSeq(t, 3, Len(t) - 2)) \o <<"</em>">>
               [] OTHER -> WithoutC(t))
            \o NestExpected(Tail(ts))

C16_Composition ==
    (pc = "inline" /\ hist # <<>>) =>
        /\ Len(hist) <= 4
        /\ \A k \in 1..Len(hist) : hist[k] = AfterPasses(k - 1, hist[1])
        /\ text = AfterPasses(Len(hist), hist[1])
        /\ Returned =>
              /\ Len(hist) = 4
              /\ \A ts \in SeqsUpTo(NestTokens, MaxMixed - 1) :
                    (ts # <<>> /\ hist[1] = Nest(ts)) => text = NestExpected(ts)

C16_Witness ==
    /\ Returned
    /\ hist[1] = <<"(", "(", "[", "[", "c", "]", "]", "*", "*", "c", "*", "*", ")", ")">>
    /\ hist[3] = <<"(", "(", "[", "[", "c", "]", "]", "<b>", "c", "</b>", ")", ")">>
    /\ hist[4] = <<"(", "(", "d", "c", "6", "3", "<b>", "c", "</b>", ")", ")">>
    /\ text = <<"d", "6", "3", "<b>", "</b>">>

----------------------------------------------------------------------------
(* C17: in every reachable state a non-empty accumulator has a type among   *)
(* "ul", "ol", "p", and every line in it is of that kind (all start with    *)
(* "- ", all start with "* ", or all are non-empty lines without marker)    *)
(* and none is empty; so every flush finds a renderer: no non-blank line    *)
(* that has been processed is missing from both the fragments and the       *)
(* accumulator.                                                             *)
OfKind(line, type) ==
    /\ line # <<>>
    /\ CASE type = "ul" -> StartsWith(line, UlMarker)
         [] type = "ol" -> StartsWith(line, OlMarker)
         [] type = "p" -> /\ ~StartsWith(line, UlMarker)
                          /\ ~StartsWith(line, OlMarker)
                          /\ ~StartsWith(line, <<"#">>)
         [] OTHER -> FALSE

\* the input lines held by the fragments and, while scanning, the accumulator
Held == Flatten(src) \o (IF pc = "scan" THEN block_src ELSE <<>>)

C17_AccumulatorTyped ==
    /\ current_block # <<>> =>
          /\ current_type \in {"ul", "ol", "p"}
          /\ \A k \in 1..Len(current_block) : OfKind(current_block[k], current_type)
          /\ Len(block_src) = Len(current_block)
          /\ \A k \in 1..Len(current_block) :
                current_block[k] = Stripped(lines[block_src[k]])
    /\ pc \in {"scan", "write", "done"} =>
          /\ Held = SelectSeq(Interval(1, idx), LAMBDA i : ~IsBlankLine(lines[i]))
          /\ Len(src) = Len(html_lines)
          /\ \A k \in Fragments : html_lines[k][1] \in {"<h", "<ul>", "<ol>", "<p>"}

C17_Witness ==
    /\ pc = "scan"
    /\ idx = 3
    /\ src = <<<<1>>>>
    /\ Len(html_lines) = 1
    /\ html_lines[1][1] = "<ol>"
    /\ current_type = "ul"
    /\ Len(current_block) = 2
    /\ block_src = <<2, 3>>

----------------------------------------------------------------------------
(* C18: a heading line is a boundary without memory. For all line sequences *)
(* A and B and every heading line h, the fragments emitted for A, h, B are  *)
(* the fragments emitted for A, h followed by the fragments emitted for B   *)
(* processed alone from the initial state, although the heading branch      *)
(* leaves current_type at its previous value.                               *)
UpTo(j) == SubSeq(lines, 1, j)
After(j) == SubSeq(lines, j + 1, Len(lines))

C18_HeadingBoundary ==
    ScanDone =>
        /\ html_lines = Render(lines)
        /\ \A j \in Positions :
              IsHeadingLine(lines[j]) =>
                  html_lines = Render(UpTo(j)) \o Render(After(j))

C18_Witness ==
    /\ pc = "done"
    /\ Len(lines) = 3
    /\ Carries(1, UlMarker)
    /\ IsHeadingLine(lines[2])
    /\ IsParaLine(3)
    /\ current_type = "p"
    /\ Len(html_lines) = 3
    /\ html_lines = Render(UpTo(2)) \o Render(After(2))
    /\ ScanFold(lines, 2).current_type = "ul"
    /\ ScanFold(lines, 2).current_block = <<>>

====
